---- MODULE Spec2Model ----
(***************************************************************************)
(* Model of the code-tutor explanation pipeline (q3/backend):              *)
(* CodeTutorAgent (services/langgraph_agent.py), the retrieval helper it   *)
(* calls (services/rag_service.py), the executor's result mapping         *)
(* (services/code_executor.py) and handle_code_execution (main.py), which  *)
(* runs the executor and then forwards the pipeline's chunks; the          *)
(* connection registry of main.py; and the request rate limiter of q2      *)
(* (q2/rate_limiter.py).                                                   *)
(*                                                                         *)
(* Texts are TLA+ strings; a pipeline run is an async generator whose      *)
(* body advances only while its consumer asks for the next chunk.          *)
(***************************************************************************)
EXTENDS Integers, Sequences, FiniteSets, TLC

VARIABLES pc, node, state, rng, out, consumer, calls, trace,
          hpc, req, sent, execs, help, raised, tasks,
          active_connections, socks, delivered,
          now, requests, threads, admitted

\* The pipeline runs' variables, and those of the request handler and of the
\* quick-help operation.
pvars == <<pc, node, state, rng, out, consumer, calls, trace>>

hvars == <<hpc, req, sent, execs, help, raised, tasks>>

\* The connection registry's variables (main.py ConnectionManager) and the
\* rate limiter's (q2/rate_limiter.py).
cvars == <<active_connections, socks, delivered>>

rvars == <<now, requests, threads, admitted>>

\* Everything outside the pipeline runs.
evars == <<hvars, cvars, rvars>>

vars == <<pc, node, state, rng, out, consumer, calls, trace,
          hpc, req, sent, execs, help, raised, tasks,
          active_connections, socks, delivered,
          now, requests, threads, admitted>>

(***************************************************************************)
(* Bounds and program constants                                            *)
(***************************************************************************)

\* Longest model explanation, in whole chunks (plus a 20-character tail).
MaxBlocks == 2

\* langgraph_agent.py:243  chunk_size = 50
chunk_size == 50

\* langgraph_agent.py:124  k=3
retrieval_k == 3

\* rag_service.py:120  code[:200]
snippet_len == 200

Instances == {1, 2}

Min(a, b) == IF a < b THEN a ELSE b

(***************************************************************************)
(* Texts                                                                   *)
(***************************************************************************)

Alphabet == "abcdefghijklmnopqrstuvwxyzABCDEFGHIJKLMNOPQRSTUVWXYZ0123456789"

Corpus == Alphabet \o Alphabet \o Alphabet \o Alphabet \o Alphabet

\* The model text of n characters; position p and p + 50 hold different
\* characters, so a lost, repeated or reordered slice changes the text.
Text(n) == SubSeq(Corpus, 1, n)

\* Python s[a:b] for 0 <= a <= b: clamped to the end of s.
Slice(s, a, b) == SubSeq(s, a + 1, Min(b, Len(s)))

\* Python range(start, stop, step) for step > 0, as the sequence of its values.
RECURSIVE Range(_, _, _)
Range(start, stop, step) ==
    IF start < stop THEN <<start>> \o Range(start + step, stop, step) ELSE <<>>

\* Python sep.join(parts)
RECURSIVE Join(_, _)
Join(sep, parts) ==
    IF parts = <<>> THEN ""
    ELSE IF Len(parts) = 1 THEN parts[1]
    ELSE parts[1] \o sep \o Join(sep, Tail(parts))

(***************************************************************************)
(* Values: execution results, documents, capability outcomes               *)
(***************************************************************************)

\* models/schemas.py ExecutionResult, the fields the pipeline reads
ExecutionResult(status, stdout, stderr, execution_time) ==
    [status |-> status, stdout |-> stdout, stderr |-> stderr,
     execution_time |-> execution_time]

Document(page_content) == [page_content |-> page_content]

D1 == Document("for loops iterate over a sequence")
D2 == Document("NameError means a name is not defined")
D3 == Document("print writes to standard output")

\* What a capability call can do: return a value or raise an exception.
Returned(text, docs) == [tag |-> "ok", text |-> text, docs |-> docs]
Raised(msg) == [tag |-> "raise", text |-> msg, docs |-> <<>>]

FailMsgs == {"rate limit exceeded (429)", "boom"}

FaultMsgs == {"graph interrupted"}

ExplLens == {0, 1, chunk_size, chunk_size + 1, MaxBlocks * chunk_size + 20}

AnalysisOutcomes == {Returned("analysis: ok", <<>>)} \cup {Raised(m) : m \in FailMsgs}

ExplainOutcomes ==
    {Returned(Text(n), <<>>) : n \in ExplLens} \cup {Raised(m) : m \in FailMsgs}

SearchOutcomes ==
    {Returned("", ds) : ds \in {<<>>, <<D1>>, <<D1, D2, D3>>}}
        \cup {Raised(m) : m \in FailMsgs}

Inputs ==
    { [code |-> Text(250), language |-> "python",
       execution_result |-> ExecutionResult("success", "42", "", 1)],
      [code |-> "print(x)", language |-> "python",
       execution_result |-> ExecutionResult("error", "", "NameError: x", 1)],
      [code |-> "console.log(1)", language |-> "javascript",
       execution_result |-> ExecutionResult("success", "1", "", 2)],
      [code |-> Text(snippet_len), language |-> "python",
       execution_result |-> ExecutionResult("success", "", "", 1)],
      [code |-> Text(snippet_len + 1), language |-> "javascript",
       execution_result |-> ExecutionResult("error", "", "ReferenceError: y", 2)] }

(***************************************************************************)
(* services/rag_service.py                                                 *)
(***************************************************************************)

\* Result of a Python function: a returned value or a propagated exception.
Ret(v) == [raised |-> FALSE, value |-> v, msg |-> ""]
Exc(m) == [raised |-> TRUE, value |-> <<>>, msg |-> m]

\* get_relevant_context, lines 113-123: the search query
\* The code joined whole, without the 200-character cut.
BuildQuery_NoTruncate(code, language, error_message) ==
    LET query_parts0 == <<language \o " code">>
        query_parts1 == IF error_message # ""
                        THEN Append(query_parts0, "error: " \o error_message)
                        ELSE query_parts0
    IN Join(" ", Append(query_parts1, code))

\* The error segment appended after the code snippet.
BuildQuery_ErrorLast(code, language, error_message) ==
    LET code_snippet == IF Len(code) > snippet_len
                        THEN Slice(code, 0, snippet_len) ELSE code
        query_parts0 == <<language \o " code", code_snippet>>
        query_parts1 == IF error_message # ""
                        THEN Append(query_parts0, "error: " \o error_message)
                        ELSE query_parts0
    IN Join(" ", query_parts1)

BuildQuery(code, language, error_message) ==
    LET query_parts0 == <<language \o " code">>
        query_parts1 == IF error_message # ""
                        THEN Append(query_parts0, "error: " \o error_message)
                        ELSE query_parts0
        code_snippet == IF Len(code) > snippet_len
                        THEN Slice(code, 0, snippet_len) ELSE code
    IN Join(" ", Append(query_parts1, code_snippet))

\* search_similar_documents: the similarity search's exception is logged and
\* an empty list returned.
search_similar_documents(outcome) ==
    IF outcome.tag = "ok" THEN Ret(outcome.docs) ELSE Ret(<<>>)

\* get_relevant_context: returns what the search returned; its own handler
\* also returns an empty list.
get_relevant_context(outcome) ==
    LET relevant_docs == search_similar_documents(outcome)
    IN IF relevant_docs.raised THEN Ret(<<>>) ELSE Ret(relevant_docs.value)

(***************************************************************************)
(* services/langgraph_agent.py: state and stage functions                  *)
(***************************************************************************)

\* generate_explanation, lines 217-225
CodeTutorState(code, language, execution_result) ==
    [messages |-> <<>>,
     code |-> code,
     language |-> language,
     execution_result |-> execution_result,
     relevant_docs |-> <<>>,
     explanation |-> "",
     current_step |-> "Starting analysis..."]

\* The state of an instance whose pipeline has not been created.
NoState ==
    [messages |-> <<>>, code |-> "", language |-> "",
     execution_result |-> ExecutionResult("", "", "", 0),
     relevant_docs |-> <<>>, explanation |-> "", current_step |-> ""]

\* _create_workflow: nodes, edges and entry point
END == "__end__"

\* Edges with retrieve_context and generate_explanation exchanged.
Edges_Reordered ==
    [analyze_code |-> "generate_explanation",
     generate_explanation |-> "retrieve_context",
     retrieve_context |-> "format_response",
     format_response |-> "__end__"]

Edges ==
    [analyze_code |-> "retrieve_context",
     retrieve_context |-> "generate_explanation",
     generate_explanation |-> "format_response",
     format_response |-> END]

EntryPoint == "analyze_code"

\* The arguments of format_messages for the analysis prompt, lines 96-103
AnalysisRequest(s) ==
    [prompt |-> "analysis", language |-> s.language, code |-> s.code,
     status |-> s.execution_result.status, stdout |-> s.execution_result.stdout,
     stderr |-> s.execution_result.stderr,
     execution_time |-> s.execution_result.execution_time, context |-> ""]

\* A failed analysis that also leaves its failure text as the explanation.
_analyze_code_ErrorExplanation(s, outcome) ==
    IF outcome.tag = "ok"
    THEN [s EXCEPT !.current_step = "Code analysis completed",
                   !.messages = Append(@, outcome.text)]
    ELSE [s EXCEPT !.current_step = "Error in analysis: " \o outcome.text,
                   !.explanation = "Error in analysis: " \o outcome.text]

\* The response, or the failure text, appended to messages on both paths.
_analyze_code_AppendAlways(s, outcome) ==
    IF outcome.tag = "ok"
    THEN [s EXCEPT !.current_step = "Code analysis completed",
                   !.messages = Append(@, outcome.text)]
    ELSE [s EXCEPT !.current_step = "Error in analysis: " \o outcome.text,
                   !.messages = Append(@, outcome.text)]

\* _analyze_code, lines 94-113
_analyze_code(s, outcome) ==
    IF outcome.tag = "ok"
    THEN [s EXCEPT !.current_step = "Code analysis completed",
                   !.messages = Append(@, outcome.text)]
    ELSE [s EXCEPT !.current_step = "Error in analysis: " \o outcome.text]

\* The arguments of get_relevant_context, lines 120-125
SearchRequest(s) ==
    [query |-> BuildQuery(s.code, s.language, s.execution_result.stderr),
     k |-> retrieval_k]

\* The code cut to the search snippet in the state itself.
_retrieve_context_SnippetInPlace(s, outcome) ==
    LET r == get_relevant_context(outcome)
    IN [s EXCEPT !.relevant_docs = r.value,
                 !.code = Slice(@, 0, snippet_len),
                 !.current_step = "Retrieved " \o ToString(Len(r.value))
                                      \o " relevant documents"]

\* Only the best match kept, the label still counting what was returned.
_retrieve_context_FirstOnly(s, outcome) ==
    LET r == get_relevant_context(outcome)
    IN [s EXCEPT !.relevant_docs = IF r.value = <<>> THEN <<>> ELSE <<r.value[1]>>,
                 !.current_step = "Retrieved " \o ToString(Len(r.value))
                                      \o " relevant documents"]

\* _retrieve_context, lines 118-135
_retrieve_context(s, outcome) ==
    LET r == get_relevant_context(outcome)
    IN IF ~r.raised
       THEN [s EXCEPT !.relevant_docs = r.value,
                      !.current_step = "Retrieved " \o ToString(Len(r.value))
                                           \o " relevant documents"]
       ELSE [s EXCEPT !.relevant_docs = <<>>,
                      !.current_step = "Error retrieving context: " \o r.msg]

\* _generate_explanation, lines 141-146: the reference block
ContextText(docs) ==
    IF docs # <<>>
    THEN Join("\n\n", [i \in 1..Len(docs) |->
                          "Reference " \o ToString(i) \o ":\n" \o docs[i].page_content])
    ELSE ""

\* The arguments of format_messages for the explanation prompt, lines 181-189
ExplanationRequest(s) ==
    [prompt |-> "explanation", language |-> s.language, code |-> s.code,
     status |-> s.execution_result.status, stdout |-> s.execution_result.stdout,
     stderr |-> s.execution_result.stderr,
     execution_time |-> s.execution_result.execution_time,
     context |-> ContextText(s.relevant_docs)]

\* The failure path sets only current_step, as _analyze_code's does.
_generate_explanation_LabelOnly(s, outcome) ==
    IF outcome.tag = "ok"
    THEN [s EXCEPT !.explanation = outcome.text,
                   !.current_step = "Explanation generated"]
    ELSE [s EXCEPT !.current_step = "Error: " \o outcome.text]

\* _generate_explanation, lines 179-200
_generate_explanation(s, outcome) ==
    IF outcome.tag = "ok"
    THEN [s EXCEPT !.explanation = outcome.text,
                   !.current_step = "Explanation generated"]
    ELSE [s EXCEPT !.explanation = "Error generating explanation: " \o outcome.text,
                   !.current_step = "Error: " \o outcome.text]

\* A format stage that drops the analysis messages.
_format_response_DropMessages(s) ==
    [s EXCEPT !.messages = <<>>,
              !.current_step = "Response formatted and ready"]

\* A format stage that puts a heading before the explanation.
_format_response_Heading(s) ==
    [s EXCEPT !.explanation = "## Explanation\n\n" \o @,
              !.current_step = "Response formatted and ready"]

\* _format_response, lines 205-206
_format_response(s) == [s EXCEPT !.current_step = "Response formatted and ready"]

(***************************************************************************)
(* generate_explanation: the chunks it yields                              *)
(***************************************************************************)

\* line 233
ProgressChunk(node_name, node_state) ==
    [kind |-> "progress",
     text |-> "**" \o node_name \o "**: " \o node_state.current_step \o "\n\n"]

\* The slice explanation[i:i + chunk_size - 1].
ExplanationChunk_Short(explanation, i) ==
    [kind |-> "explanation",
     text |-> SubSeq(explanation, i + 1, Min(i + chunk_size - 1, Len(explanation)))]

\* lines 245-246
ExplanationChunk(explanation, i) ==
    [kind |-> "explanation", text |-> Slice(explanation, i, i + chunk_size)]

\* line 251
ErrorChunk(msg) ==
    [kind |-> "error", text |-> "Error generating explanation: " \o msg]

\* range(0, len(explanation) + 1, chunk_size): the stop taken inclusive.
ChunkOffsets_Inclusive(explanation) == Range(0, Len(explanation) + 1, chunk_size)

\* line 244
ChunkOffsets(explanation) == Range(0, Len(explanation), chunk_size)

Call(cap, request, outcome) == [cap |-> cap, request |-> request, outcome |-> outcome]

Ran(node_name, s) == [node |-> node_name, current_step |-> s.current_step]

(***************************************************************************)
(* Actions                                                                 *)
(***************************************************************************)

\* No run_code request received yet.
NoRequest == [code |-> "", language |-> ""]

\* The websocket connections and the client ids they connect with
\* (main.py:95-97).
Sockets == {1, 2}

ClientIds == {"a", "b"}

\* active_connections has no entry for the client id.
NoSocket == 0

NewSocket == [at |-> "new", client_id |-> "", todo |-> 0]

\* The rate limiter's callers and the identifiers they pass
\* (q2/rate_limiter.py:23).
Threads == {1, 2}

Identifiers == {"s1", "s2"}

IdleThread == [at |-> "idle", identifier |-> "", current_time |-> 0]

Init ==
    /\ pc = [i \in Instances |-> "idle"]
    /\ node = [i \in Instances |-> EntryPoint]
    /\ state = [i \in Instances |-> NoState]
    /\ rng = [i \in Instances |-> <<>>]
    /\ out = [i \in Instances |-> <<>>]
    /\ consumer = [i \in Instances |-> "open"]
    /\ calls = [i \in Instances |-> <<>>]
    /\ trace = [i \in Instances |-> <<>>]
    /\ hpc = "idle"
    /\ req = NoRequest
    /\ sent = <<>>
    /\ execs = <<>>
    /\ help = <<>>
    /\ raised = <<>>
    /\ tasks = <<>>
    /\ active_connections = [c \in ClientIds |-> NoSocket]
    /\ socks = [w \in Sockets |-> NewSocket]
    /\ delivered = <<>>
    /\ now = 0
    /\ requests = [id \in Identifiers |-> <<>>]
    /\ threads = [t \in Threads |-> IdleThread]
    /\ admitted = [id \in Identifiers |-> <<>>]

\* A producer that runs ahead of its consumer.
Resumable_Eager(i) == TRUE

\* The generator body runs only while its consumer is awaiting the next chunk.
Resumable(i) == consumer[i] = "open"

\* main.py:154 / langgraph_agent.py:217-229: a request creates its own state
\* and starts iterating the workflow.
StartPipeline(i, inputs) ==
    /\ pc[i] = "idle"
    /\ \E inp \in inputs :
          state' = [state EXCEPT ![i] =
                      CodeTutorState(inp.code, inp.language, inp.execution_result)]
    /\ pc' = [pc EXCEPT ![i] = "astream"]
    /\ UNCHANGED <<node, rng, out, consumer, calls, trace>>

\* The node's state kept in one slot shared by every run of the agent.
Emit_Shared(i, node_name, node_state, newcalls) ==
    /\ state' = [j \in DOMAIN state |-> node_state]
    /\ calls' = [calls EXCEPT ![i] = @ \o newcalls]
    /\ trace' = [trace EXCEPT ![i] =
                   Append(@, [node |-> node_name, current_step |-> node_state.current_step])]
    /\ out' = [out EXCEPT ![i] =
                 Append(@, [kind |-> "progress",
                            text |-> "**" \o node_name \o "**: "
                                        \o node_state.current_step \o "\n\n"])]
    /\ node' = [node EXCEPT ![i] = Edges[node_name]]
    /\ UNCHANGED consumer

\* One workflow event for a node, then lines 230-236: the progress chunk.
Emit(i, node_name, node_state, newcalls) ==
    /\ state' = [state EXCEPT ![i] = node_state]
    /\ calls' = [calls EXCEPT ![i] = @ \o newcalls]
    /\ trace' = [trace EXCEPT ![i] = Append(@, Ran(node_name, node_state))]
    /\ out' = [out EXCEPT ![i] =
                 IF "current_step" \in DOMAIN node_state
                 THEN Append(@, ProgressChunk(node_name, node_state))
                 ELSE @]
    /\ node' = [node EXCEPT ![i] = Edges[node_name]]
    /\ UNCHANGED consumer

\* A failed analysis request issued a second time.
AnalyzeCodeStep_Retry(i, outcomes) ==
    /\ pc[i] = "astream" /\ node[i] = "analyze_code" /\ Resumable(i)
    /\ \E first \in outcomes, second \in outcomes :
          IF first.tag = "ok"
          THEN Emit(i, "analyze_code", _analyze_code(state[i], first),
                    <<Call("llm", AnalysisRequest(state[i]), first)>>)
          ELSE Emit(i, "analyze_code", _analyze_code(state[i], second),
                    <<Call("llm", AnalysisRequest(state[i]), first),
                      Call("llm", AnalysisRequest(state[i]), second)>>)
    /\ UNCHANGED <<pc, rng>>

AnalyzeCodeStep(i, outcomes) ==
    /\ pc[i] = "astream" /\ node[i] = "analyze_code" /\ Resumable(i)
    /\ \E outcome \in outcomes :
          Emit(i, "analyze_code", _analyze_code(state[i], outcome),
               <<Call("llm", AnalysisRequest(state[i]), outcome)>>)
    /\ UNCHANGED <<pc, rng>>

RetrieveContextStep(i, outcomes) ==
    /\ pc[i] = "astream" /\ node[i] = "retrieve_context" /\ Resumable(i)
    /\ \E outcome \in outcomes :
          Emit(i, "retrieve_context", _retrieve_context(state[i], outcome),
               <<Call("search", SearchRequest(state[i]), outcome)>>)
    /\ UNCHANGED <<pc, rng>>

\* The generate_explanation node, its progress chunk, and lines 239-244: the
\* offsets of the explanation chunks still to be yielded.
GenerateExplanationStep(i, outcomes) ==
    /\ pc[i] = "astream" /\ node[i] = "generate_explanation" /\ Resumable(i)
    /\ \E outcome \in outcomes :
          LET node_state == _generate_explanation(state[i], outcome)
              offsets == IF "explanation" \in DOMAIN node_state
                         THEN ChunkOffsets(node_state.explanation) ELSE <<>>
          IN /\ Emit(i, "generate_explanation", node_state,
                     <<Call("llm", ExplanationRequest(state[i]), outcome)>>)
             /\ rng' = [rng EXCEPT ![i] = offsets]
             /\ pc' = [pc EXCEPT ![i] = IF offsets # <<>> THEN "chunks" ELSE "astream"]

\* The offsets taken from the end of the range.
YieldChunk_Reversed(i) ==
    /\ pc[i] = "chunks" /\ Resumable(i)
    /\ out' = [out EXCEPT ![i] =
                 Append(@, ExplanationChunk(state[i].explanation, rng[i][Len(rng[i])]))]
    /\ rng' = [rng EXCEPT ![i] = SubSeq(@, 1, Len(@) - 1)]
    /\ pc' = [pc EXCEPT ![i] = IF Len(rng[i]) > 1 THEN "chunks" ELSE "astream"]
    /\ UNCHANGED <<node, state, consumer, calls, trace>>

\* The explanation read from the slot of the first run rather than from the
\* run's own node state.
YieldChunk_FirstRun(i) ==
    /\ pc[i] = "chunks" /\ Resumable(i)
    /\ out' = [out EXCEPT ![i] =
                 Append(@, ExplanationChunk(state[1].explanation, Head(rng[i])))]
    /\ rng' = [rng EXCEPT ![i] = Tail(@)]
    /\ pc' = [pc EXCEPT ![i] = IF Tail(rng[i]) # <<>> THEN "chunks" ELSE "astream"]
    /\ UNCHANGED <<node, state, consumer, calls, trace>>

\* lines 244-247: one explanation chunk
YieldChunk(i) ==
    /\ pc[i] = "chunks" /\ Resumable(i)
    /\ out' = [out EXCEPT ![i] =
                 Append(@, ExplanationChunk(state[i].explanation, Head(rng[i])))]
    /\ rng' = [rng EXCEPT ![i] = Tail(@)]
    /\ pc' = [pc EXCEPT ![i] = IF Tail(rng[i]) # <<>> THEN "chunks" ELSE "astream"]
    /\ UNCHANGED <<node, state, consumer, calls, trace>>

FormatResponseStep(i) ==
    /\ pc[i] = "astream" /\ node[i] = "format_response" /\ Resumable(i)
    /\ Emit(i, "format_response", _format_response(state[i]), <<>>)
    /\ UNCHANGED <<pc, rng>>

\* The generator left suspended after the last stage, until its consumer
\* has gone.
AstreamEnd_Hang(i) ==
    /\ pc[i] = "astream" /\ node[i] = END /\ consumer[i] = "gone"
    /\ pc' = [pc EXCEPT ![i] = "closed"]
    /\ UNCHANGED <<node, state, rng, out, consumer, calls, trace>>

\* line 229: the workflow has reached END; the generator returns.
AstreamEnd(i) ==
    /\ pc[i] = "astream" /\ node[i] = END /\ Resumable(i)
    /\ pc' = [pc EXCEPT ![i] = "closed"]
    /\ UNCHANGED <<node, state, rng, out, consumer, calls, trace>>

\* The exception handled inside the loop, which then goes on.
WorkflowFault_Continue(i) ==
    /\ pc[i] = "astream" /\ Resumable(i) /\ node[i] # "__end__"
    /\ \E msg \in FaultMsgs :
          out' = [out EXCEPT ![i] =
                    Append(@, [kind |-> "error",
                               text |-> "Error generating explanation: " \o msg])]
    /\ node' = [node EXCEPT ![i] = Edges[node[i]]]
    /\ UNCHANGED <<pc, state, rng, consumer, calls, trace>>

\* lines 249-251: an exception escapes the workflow iteration; one error chunk.
WorkflowFault(i) ==
    /\ pc[i] = "astream" /\ Resumable(i)
    /\ \E msg \in FaultMsgs :
          out' = [out EXCEPT ![i] = Append(@, ErrorChunk(msg))]
    /\ pc' = [pc EXCEPT ![i] = "except"]
    /\ UNCHANGED <<node, state, rng, consumer, calls, trace>>

\* after line 251 the generator returns.
ErrorReturn(i) ==
    /\ pc[i] = "except" /\ Resumable(i)
    /\ pc' = [pc EXCEPT ![i] = "closed"]
    /\ UNCHANGED <<node, state, rng, out, consumer, calls, trace>>

\* main.py:154-173: sending a received chunk raises (the client is gone); the
\* async for loop is left and the generator is never resumed.
ConsumerStop(i) ==
    /\ consumer[i] = "open"
    /\ pc[i] \in {"astream", "chunks", "except"}
    /\ out[i] # <<>>
    /\ consumer' = [consumer EXCEPT ![i] = "gone"]
    /\ UNCHANGED <<pc, node, state, rng, out, calls, trace>>

\* One pipeline run.
Next ==
    \E i \in {1} :
        \/ StartPipeline(i, Inputs) /\ UNCHANGED evars
        \/ AnalyzeCodeStep(i, AnalysisOutcomes) /\ UNCHANGED evars
        \/ RetrieveContextStep(i, SearchOutcomes) /\ UNCHANGED evars
        \/ GenerateExplanationStep(i, ExplainOutcomes) /\ UNCHANGED evars
        \/ YieldChunk(i) /\ UNCHANGED evars
        \/ FormatResponseStep(i) /\ UNCHANGED evars
        \/ AstreamEnd(i) /\ UNCHANGED evars
        \/ WorkflowFault(i) /\ UNCHANGED evars
        \/ ErrorReturn(i) /\ UNCHANGED evars
        \/ ConsumerStop(i) /\ UNCHANGED evars

Spec == Init /\ [][Next]_vars

(***************************************************************************)
(* Two pipeline instances of the one shared agent (main.py:41), one per    *)
(* client connection, interleaved stage by stage.                          *)
(***************************************************************************)

InputsConc ==
    { [code |-> "print(x)", language |-> "python",
       execution_result |-> ExecutionResult("error", "", "NameError: x", 1)],
      [code |-> "console.log(1)", language |-> "javascript",
       execution_result |-> ExecutionResult("success", "1", "", 2)] }

AnalysisOutcomesConc == {Returned("analysis: ok", <<>>), Raised("boom")}

SearchOutcomesConc == {Returned("", <<D1>>), Raised("boom")}

ExplainOutcomesConc == {Returned(Text(chunk_size + 1), <<>>), Raised("boom")}

NextConc ==
    \E i \in Instances :
        \/ StartPipeline(i, InputsConc) /\ UNCHANGED evars
        \/ AnalyzeCodeStep(i, AnalysisOutcomesConc) /\ UNCHANGED evars
        \/ RetrieveContextStep(i, SearchOutcomesConc) /\ UNCHANGED evars
        \/ GenerateExplanationStep(i, ExplainOutcomesConc) /\ UNCHANGED evars
        \/ YieldChunk(i) /\ UNCHANGED evars
        \/ FormatResponseStep(i) /\ UNCHANGED evars
        \/ AstreamEnd(i) /\ UNCHANGED evars
        \/ WorkflowFault(i) /\ UNCHANGED evars
        \/ ErrorReturn(i) /\ UNCHANGED evars
        \/ ConsumerStop(i) /\ UNCHANGED evars

SpecConc == Init /\ [][NextConc]_vars

(***************************************************************************)
(* The code executor (services/code_executor.py)                           *)
(***************************************************************************)

Languages == {"python", "javascript"}

\* models/schemas.py: exit_code and error_message left at their default.
NoExitCode == -1

NoMessage == "<None>"

\* The ExecutionResult with its optional fields, as execute_code builds it.
ExecutionResultOf(status, stdout, stderr, execution_time, exit_code, error_message) ==
    [status |-> status, stdout |-> stdout, stderr |-> stderr,
     execution_time |-> execution_time,
     exit_code |-> exit_code, error_message |-> error_message]

\* _handle_output, lines 120-127: what the callback is called with.
Piece(type, data) == [type |-> type, data |-> data]

\* What the sandbox does with one program: the process exits after its
\* output pieces, the wait raises asyncio.TimeoutError or another exception
\* after them, or creating the sandbox raises. stdout and stderr are the
\* joined pieces of each channel.
SandboxRuns ==
    { [tag |-> "exit", exit_code |-> 0, msg |-> "",
       pieces |-> <<Piece("stdout", "1"), Piece("stdout", "2")>>],
      [tag |-> "exit", exit_code |-> 1, msg |-> "",
       pieces |-> <<Piece("stderr", "NameError: x")>>],
      [tag |-> "exit", exit_code |-> 0, msg |-> "", pieces |-> <<>>],
      [tag |-> "timeout", exit_code |-> 0, msg |-> "",
       pieces |-> <<Piece("stdout", "1")>>],
      [tag |-> "raise", exit_code |-> 0, msg |-> "process died",
       pieces |-> <<>>],
      [tag |-> "create_raises", exit_code |-> 0, msg |-> "sandbox unavailable",
       pieces |-> <<>>] }

\* "".join of the pieces of one channel (lines 27-28 and 120-122).
Buffer(pieces, type) ==
    Join("", [k \in 1..Len(SelectSeq(pieces, LAMBDA q : q.type = type)) |->
                 SelectSeq(pieces, LAMBDA q : q.type = type)[k].data])

\* The sandbox is closed only after a run that returned.
SandboxLog_CloseOnReturn(language, run) ==
    IF language \notin Languages \/ run.tag = "create_raises" THEN <<>>
    ELSE IF run.tag = "exit" THEN <<"created", "closed">>
    ELSE <<"created">>

\* lines 31-64: the sandbox is created once the template is found, and the
\* finally clause closes it however the run ends.
SandboxLog(language, run) ==
    IF language \notin Languages \/ run.tag = "create_raises" THEN <<>>
    ELSE <<"created", "closed">>

\* Every failure reported with the status of a timeout.
ResultOf_AllTimeout(language, run) ==
    IF language \in Languages /\ run.tag = "exit"
    THEN ExecutionResultOf(IF run.exit_code = 0 THEN "success" ELSE "error",
                           Buffer(run.pieces, "stdout"), Buffer(run.pieces, "stderr"), 1,
                           run.exit_code,
                           IF run.exit_code # 0 THEN Buffer(run.pieces, "stderr")
                           ELSE NoMessage)
    ELSE ExecutionResultOf("timeout", Buffer(run.pieces, "stdout"), "Execution timed out",
                           30, NoExitCode, "Code execution timed out")

\* lines 30-82: the result returned on each path.
ResultOf(language, run) ==
    IF language \notin Languages
    THEN ExecutionResultOf("error", "", "Unsupported language: " \o language, 1,
                           NoExitCode, "Unsupported language: " \o language)
    ELSE IF run.tag = "exit"
    THEN ExecutionResultOf(IF run.exit_code = 0 THEN "success" ELSE "error",
                           Buffer(run.pieces, "stdout"), Buffer(run.pieces, "stderr"), 1,
                           run.exit_code,
                           IF run.exit_code # 0 THEN Buffer(run.pieces, "stderr")
                           ELSE NoMessage)
    ELSE IF run.tag = "timeout"
    THEN ExecutionResultOf("timeout", Buffer(run.pieces, "stdout"), "Execution timed out",
                           30, NoExitCode, "Code execution timed out")
    ELSE ExecutionResultOf("error", Buffer(run.pieces, "stdout"), run.msg, 1,
                           NoExitCode, run.msg)

\* execute_code, lines 17-82: its result, what it did with the sandbox and
\* the pieces it handed to output_callback.
execute_code(code, language, run) ==
    [result |-> ResultOf(language, run),
     sandbox |-> SandboxLog(language, run),
     outputs |-> IF language \in Languages THEN run.pieces ELSE <<>>]

(***************************************************************************)
(* handle_code_execution (main.py:118-173); it drives pipeline run 1.      *)
(* sent holds the messages whose send returned, raised those whose send    *)
(* raised, tasks the sends scheduled by the output callback (line 133).    *)
(***************************************************************************)

Payloads ==
    { [code |-> "print(x)", language |-> "python"],
      [code |-> "console.log(1)", language |-> "javascript"],
      [code |-> "puts 1", language |-> "ruby"] }

\* The messages handed to manager.send_message
Status(message) == [type |-> "status", message |-> message]

ExecutionOutput(piece) == [type |-> "execution_output", data |-> piece]

ExecutionComplete(result) == [type |-> "execution_complete", result |-> result]

RagExplanation(chunk) == [type |-> "rag_explanation", data |-> chunk.text]

ExecutionError(message) == [type |-> "execution_error", message |-> message]

\* The messages of one type sent so far.
SentOf(type) == SelectSeq(sent, LAMBDA m : m.type = type)

\* Every chunk the generator has yielded was forwarded: the loop of line
\* 154 asks for the next one.
Forwarded == Len(SentOf("rag_explanation")) = Len(out[1])

\* lines 121-122
HandlerReceive ==
    /\ hpc = "idle"
    /\ \E payload \in Payloads : req' = payload
    /\ hpc' = "start"
    /\ UNCHANGED <<pvars, sent, execs, help, raised, tasks, cvars, rvars>>

\* lines 121 and 168-173: a payload without its "code" key.
HandlerBadPayload ==
    /\ hpc = "idle"
    /\ sent' = Append(sent, ExecutionError("'code'"))
    /\ hpc' = "failed"
    /\ UNCHANGED <<pvars, req, execs, help, raised, tasks, cvars, rvars>>

\* lines 131-139: the executor runs without suspending; each piece of
\* output schedules a task that will send it.
HandlerExecute ==
    /\ hpc = "execute"
    /\ \E run \in SandboxRuns :
          LET e == execute_code(req.code, req.language, run)
          IN /\ execs' = Append(execs, [code |-> req.code, language |-> req.language,
                                        run |-> run, result |-> e.result,
                                        sandbox |-> e.sandbox])
             /\ tasks' = tasks \o [k \in 1..Len(e.outputs) |-> ExecutionOutput(e.outputs[k])]
    /\ hpc' = "complete"
    /\ UNCHANGED <<pvars, req, sent, help, raised, cvars, rvars>>

\* line 133: a scheduled send runs while the handler is suspended.
OutputTask ==
    /\ tasks # <<>>
    /\ sent' = Append(sent, Head(tasks))
    /\ tasks' = Tail(tasks)
    /\ UNCHANGED <<pvars, hpc, req, execs, help, raised, cvars, rvars>>

\* line 133: a scheduled send raises; nothing awaits the task.
OutputTaskRaises ==
    /\ tasks # <<>>
    /\ raised' = Append(raised, Head(tasks))
    /\ tasks' = Tail(tasks)
    /\ UNCHANGED <<pvars, hpc, req, sent, execs, help, cvars, rvars>>

\* The message the handler sends at its position, and the position after it.
SendsAt(at) == at \in {"start", "complete", "status"} \/ (at = "stream" /\ ~Forwarded)

NextSend ==
    IF hpc = "start" THEN Status("Starting code execution...")
    ELSE IF hpc = "complete" THEN ExecutionComplete(execs[Len(execs)].result)
    ELSE IF hpc = "status" THEN Status("Generating AI explanation...")
    ELSE RagExplanation(out[1][Len(SentOf("rag_explanation")) + 1])

AfterSend ==
    IF hpc = "start" THEN "execute"
    ELSE IF hpc = "complete" THEN "status"
    ELSE IF hpc = "status" THEN "explain"
    ELSE "stream"

\* lines 125-128, 142-145, 148-151 and 157-160
HandlerSend ==
    /\ SendsAt(hpc)
    /\ sent' = Append(sent, NextSend)
    /\ hpc' = AfterSend
    /\ UNCHANGED <<pvars, req, execs, help, raised, tasks, cvars, rvars>>

\* The explanation started while the executor still runs, on a result that
\* is not there yet.
HandlerExplain_Early ==
    /\ hpc \in {"execute", "explain"} /\ pc[1] = "idle"
    /\ StartPipeline(1, {[code |-> req.code, language |-> req.language,
                          execution_result |->
                              IF execs = <<>> THEN ExecutionResult("success", "", "", 0)
                              ELSE execs[Len(execs)].result]})
    /\ hpc' = "stream"
    /\ UNCHANGED <<req, sent, execs, help, raised, tasks, cvars, rvars>>

\* lines 154-156: the generator is created on the executor's result and
\* asked for its first chunk.
HandlerExplain ==
    /\ hpc = "explain" /\ pc[1] = "idle"
    /\ StartPipeline(1, {[code |-> req.code, language |-> req.language,
                          execution_result |-> execs[Len(execs)].result]})
    /\ hpc' = "stream"
    /\ UNCHANGED <<req, sent, execs, help, raised, tasks, cvars, rvars>>

\* Ready sent as soon as the chunks yielded so far are forwarded.
HandlerReady_Early ==
    /\ hpc = "stream" /\ Forwarded /\ out[1] # <<>>
    /\ sent' = Append(sent, Status("Ready"))
    /\ hpc' = "done"
    /\ UNCHANGED <<pvars, req, execs, help, raised, tasks, cvars, rvars>>

\* lines 163-166
HandlerReady ==
    /\ hpc = "stream" /\ Forwarded /\ pc[1] = "closed"
    /\ sent' = Append(sent, Status("Ready"))
    /\ hpc' = "done"
    /\ UNCHANGED <<pvars, req, execs, help, raised, tasks, cvars, rvars>>

\* lines 168-173: a send of the handler raises; the loop, if entered, is
\* left and the generator asked for nothing more; execution_error is sent,
\* and that send returns or raises in its turn.
HandlerSendRaises ==
    /\ \/ SendsAt(hpc)
       \/ hpc = "stream" /\ Forwarded /\ pc[1] = "closed"
    /\ LET failing == IF SendsAt(hpc) THEN NextSend ELSE Status("Ready")
       IN \E reported \in BOOLEAN :
             IF reported
             THEN /\ raised' = Append(raised, failing)
                  /\ sent' = Append(sent, ExecutionError("connection closed"))
             ELSE /\ raised' = raised \o <<failing, ExecutionError("connection closed")>>
                  /\ sent' = sent
    /\ hpc' = "failed"
    /\ IF pc[1] \in {"astream", "chunks", "except"}
       THEN ConsumerStop(1)
       ELSE UNCHANGED pvars
    /\ UNCHANGED <<req, execs, help, tasks, cvars, rvars>>

\* The generator's body runs when the handler asks for the next chunk.
Pulling == hpc = "stream" /\ Forwarded

\* One run_code request.
NextHandler ==
    \/ HandlerReceive
    \/ HandlerBadPayload
    \/ HandlerExecute
    \/ OutputTask
    \/ OutputTaskRaises
    \/ HandlerSend
    \/ HandlerExplain
    \/ HandlerReady
    \/ HandlerSendRaises
    \/ Pulling /\ AnalyzeCodeStep(1, AnalysisOutcomesConc) /\ UNCHANGED evars
    \/ Pulling /\ RetrieveContextStep(1, SearchOutcomesConc) /\ UNCHANGED evars
    \/ Pulling /\ GenerateExplanationStep(1, ExplainOutcomesConc) /\ UNCHANGED evars
    \/ Pulling /\ YieldChunk(1) /\ UNCHANGED evars
    \/ Pulling /\ FormatResponseStep(1) /\ UNCHANGED evars
    \/ Pulling /\ AstreamEnd(1) /\ UNCHANGED evars
    \/ Pulling /\ WorkflowFault(1) /\ UNCHANGED evars
    \/ Pulling /\ ErrorReturn(1) /\ UNCHANGED evars

SpecHandler == Init /\ [][NextHandler]_vars

(***************************************************************************)
(* get_quick_help (langgraph_agent.py:253-268)                             *)
(***************************************************************************)

\* Quick-help calls in one behaviour.
MaxHelp == 2

HelpInputs ==
    { [code |-> "print(x)", language |-> "python"],
      [code |-> "console.log(1)", language |-> "javascript"] }

HelpOutcomes ==
    {Returned(Text(chunk_size + 20), <<>>), Returned("", <<>>), Raised("boom")}

\* lines 256-259
HelpRequest(code, language) ==
    [prompt |-> "quick_help", code |-> code, language |-> language]

\* The bare failure message returned.
get_quick_help_BareMessage(outcome) == outcome.text

\* Only the first 50 characters of the response returned.
get_quick_help_FirstChunk(outcome) ==
    IF outcome.tag = "ok" THEN Slice(outcome.text, 0, chunk_size)
    ELSE "Error getting help: " \o outcome.text

\* lines 261-268
get_quick_help(outcome) ==
    IF outcome.tag = "ok" THEN outcome.text
    ELSE "Error getting help: " \o outcome.text

QuickHelp ==
    /\ Len(help) < MaxHelp
    /\ \E inp \in HelpInputs, outcome \in HelpOutcomes :
          help' = Append(help,
                     [calls |-> <<Call("llm", HelpRequest(inp.code, inp.language), outcome)>>,
                      result |-> get_quick_help(outcome)])
    /\ UNCHANGED <<pvars, hpc, req, sent, execs, raised, tasks, cvars, rvars>>

\* One pipeline run and quick-help calls of the same agent.
NextHelp ==
    \/ QuickHelp
    \/ \E i \in {1} :
        \/ StartPipeline(i, InputsConc) /\ UNCHANGED evars
        \/ AnalyzeCodeStep(i, AnalysisOutcomesConc) /\ UNCHANGED evars
        \/ RetrieveContextStep(i, SearchOutcomesConc) /\ UNCHANGED evars
        \/ GenerateExplanationStep(i, ExplainOutcomesConc) /\ UNCHANGED evars
        \/ YieldChunk(i) /\ UNCHANGED evars
        \/ FormatResponseStep(i) /\ UNCHANGED evars
        \/ AstreamEnd(i) /\ UNCHANGED evars
        \/ WorkflowFault(i) /\ UNCHANGED evars
        \/ ErrorReturn(i) /\ UNCHANGED evars
        \/ ConsumerStop(i) /\ UNCHANGED evars

SpecHelp == Init /\ [][NextHelp]_vars

(***************************************************************************)
(* One pipeline run whose consumer, while it stays, asks for the next      *)
(* chunk, and whose capability calls return or fail: the generator's step  *)
(* that is enabled is eventually taken.                                    *)
(***************************************************************************)

Resume(i) ==
    /\ \/ AnalyzeCodeStep(i, AnalysisOutcomes)
       \/ RetrieveContextStep(i, SearchOutcomes)
       \/ GenerateExplanationStep(i, ExplainOutcomes)
       \/ YieldChunk(i)
       \/ FormatResponseStep(i)
       \/ AstreamEnd(i)
       \/ ErrorReturn(i)
    /\ UNCHANGED evars

SpecLive == Init /\ [][Next]_vars /\ WF_vars(Resume(1))

(***************************************************************************)
(* ConnectionManager and websocket_endpoint (main.py:44-116): connections  *)
(* register under the client id of their URL; a connection serves one      *)
(* run_code request, of MsgsPerRequest messages.                           *)
(***************************************************************************)

\* Messages sent while one request is handled.
MsgsPerRequest == 2

\* line 97 and lines 48-51: accept, then register under the client id.
Connect(w, c) ==
    /\ socks[w].at = "new"
    /\ active_connections' = [active_connections EXCEPT ![c] = w]
    /\ socks' = [socks EXCEPT ![w] = [at |-> "open", client_id |-> c, todo |-> 0]]
    /\ UNCHANGED <<pvars, hvars, delivered, rvars>>

\* lines 101-105: a run_code message arrives; its handling starts.
ReceiveRunCode(w) ==
    /\ socks[w].at = "open"
    /\ socks' = [socks EXCEPT ![w].at = "handling", ![w].todo = MsgsPerRequest]
    /\ UNCHANGED <<pvars, hvars, active_connections, delivered, rvars>>

\* lines 57-59: the message goes to whatever socket is registered under the
\* client id, or nowhere when none is.
SendMessage(w) ==
    /\ socks[w].at = "handling"
    /\ delivered' = Append(delivered,
                       [from |-> w, to |-> active_connections[socks[w].client_id]])
    /\ socks' = [socks EXCEPT ![w].todo = @ - 1,
                              ![w].at = IF socks[w].todo = 1 THEN "served" ELSE "handling"]
    /\ UNCHANGED <<pvars, hvars, active_connections, rvars>>

\* lines 101 and 109-110, lines 53-56: receive_text raises
\* WebSocketDisconnect; the entry of the client id is deleted.
Disconnect(w) ==
    /\ socks[w].at \in {"open", "served"}
    /\ active_connections' = [active_connections EXCEPT ![socks[w].client_id] = NoSocket]
    /\ socks' = [socks EXCEPT ![w].at = "closed"]
    /\ UNCHANGED <<pvars, hvars, delivered, rvars>>

NextConn ==
    \E w \in Sockets :
        \/ \E c \in ClientIds : Connect(w, c)
        \/ ReceiveRunCode(w)
        \/ SendMessage(w)
        \/ Disconnect(w)

SpecConn == Init /\ [][NextConn]_vars

(***************************************************************************)
(* StreamlitRateLimiter (q2/rate_limiter.py:14-57) called from threads; a  *)
(* call reads the clock, then runs its critical section under the lock.    *)
(***************************************************************************)

\* The limiter's parameters (line 17) and the last clock value.
max_requests == 2

window_seconds == 2

MaxTime == 3

\* Admitted calls of one identifier after which no further call starts.
MaxAdmitted == 3

\* time.time() advances.
Tick ==
    /\ now < MaxTime
    /\ now' = now + 1
    /\ UNCHANGED <<pvars, hvars, cvars, requests, threads, admitted>>

\* lines 34-35 and 53-54: popleft while the oldest entry is older than the
\* window.
RECURSIVE Clean(_, _)
Clean(request_times, current_time) ==
    IF request_times # <<>> /\ current_time - Head(request_times) > window_seconds
    THEN Clean(Tail(request_times), current_time)
    ELSE request_times

\* lines 23-29 and 44-48: the call starts and reads the clock.
ReadClock(t) ==
    /\ threads[t].at = "idle"
    /\ \E id \in Identifiers, op \in {"is_allowed", "get_remaining_requests"} :
          /\ Len(admitted[id]) < MaxAdmitted
          /\ threads' = [threads EXCEPT ![t] =
                           [at |-> op, identifier |-> id, current_time |-> now]]
    /\ UNCHANGED <<pvars, hvars, cvars, now, requests, admitted>>

\* lines 31-42: the critical section of is_allowed.
is_allowed(t) ==
    /\ threads[t].at = "is_allowed"
    /\ LET id == threads[t].identifier
           current_time == threads[t].current_time
           request_times == Clean(requests[id], current_time)
       IN IF Len(request_times) < max_requests
          THEN /\ requests' = [requests EXCEPT ![id] = Append(request_times, current_time)]
               /\ admitted' = [admitted EXCEPT ![id] =
                                 Append(@, now)]
          ELSE /\ requests' = [requests EXCEPT ![id] = request_times]
               /\ admitted' = admitted
    /\ threads' = [threads EXCEPT ![t] = IdleThread]
    /\ UNCHANGED <<pvars, hvars, cvars, now>>

\* lines 50-57: the critical section of get_remaining_requests.
get_remaining_requests(t) ==
    /\ threads[t].at = "get_remaining_requests"
    /\ requests' = [requests EXCEPT ![threads[t].identifier] =
                      Clean(@, threads[t].current_time)]
    /\ threads' = [threads EXCEPT ![t] = IdleThread]
    /\ UNCHANGED <<pvars, hvars, cvars, now, admitted>>

NextLimiter ==
    \/ Tick
    \/ \E t \in Threads :
        \/ ReadClock(t)
        \/ is_allowed(t)
        \/ get_remaining_requests(t)

SpecLimiter == Init /\ [][NextLimiter]_vars

(***************************************************************************)
(* Properties                                                              *)
(***************************************************************************)

StageOrder ==
    <<"analyze_code", "retrieve_context", "generate_explanation", "format_response">>

\* Positions in out[i] of the chunks of one kind.
KindIdx(i, kind) == {k \in 1..Len(out[i]) : out[i][k].kind = kind}

\* The chunks of one kind, in emission order.
OfKind(i, kind) == SelectSeq(out[i], LAMBDA c : c.kind = kind)

RECURSIVE ConcatTexts(_)
ConcatTexts(chunks) ==
    IF chunks = <<>> THEN "" ELSE Head(chunks).text \o ConcatTexts(Tail(chunks))

\* The run reached END: every chunk was consumed and no exception escaped.
Completed(i) == pc[i] = "closed" /\ KindIdx(i, "error") = {}

\* The chunk loop of lines 244-247 has been run to its end.
ChunksDone(i) == Len(trace[i]) >= 3 /\ pc[i] # "chunks"

Failed(i, k) == Len(calls[i]) >= k /\ calls[i][k].outcome.tag = "raise"

\* C1: the progress chunks of a run are, in order, those of analyze_code,
\* retrieve_context, generate_explanation and format_response, each
\* "**{stage}**: {label}\n\n" with the label that stage set; a run that is
\* consumed to END holds exactly these four, whatever the LLM and the
\* search did inside the stages.
C1_StageOrder ==
    \A i \in Instances :
        LET prog == OfKind(i, "progress")
        IN /\ Len(prog) <= 4
           /\ Len(prog) = Len(trace[i])
           /\ \A k \in 1..Len(prog) :
                 /\ trace[i][k].node = StageOrder[k]
                 /\ prog[k].text =
                      "**" \o StageOrder[k] \o "**: " \o trace[i][k].current_step \o "\n\n"
           /\ (Completed(i) => Len(prog) = 4)

\* A completed run in which the LLM failed in both of its stages and the
\* search failed.
C1_Witness ==
    \E i \in Instances :
        /\ Completed(i)
        /\ Failed(i, 1) /\ Failed(i, 2) /\ Failed(i, 3)

\* C2: the explanation chunks emitted so far concatenate to a prefix of the
\* explanation, and once the chunk loop has ended to the whole explanation,
\* for lengths 0, below, at and above multiples of the chunk size.
C2_ChunkReconstruction ==
    \A i \in Instances :
        LET cat == ConcatTexts(OfKind(i, "explanation"))
        IN /\ cat = SubSeq(state[i].explanation, 1, Len(cat))
           /\ (ChunksDone(i) => cat = state[i].explanation)

\* A completed run whose explanation is longer than two chunks and not a
\* multiple of the chunk size.
C2_Witness ==
    \E i \in Instances :
        /\ Completed(i)
        /\ Len(state[i].explanation) > 2 * chunk_size
        /\ Len(state[i].explanation) % chunk_size # 0
        /\ Len(OfKind(i, "explanation")) = 3

\* Whether sub occurs in s.
Contains(s, sub) ==
    \E a \in 0..(Len(s) - Len(sub)) : SubSeq(s, a + 1, a + Len(sub)) = sub

\* The stage that made the k-th capability call of a run (the first three
\* stages make one call each).
FailureRecorded(i, k) ==
    Len(trace[i]) >= k /\ Contains(trace[i][k].current_step, calls[i][k].outcome.text)

\* C3: a capability failure inside a stage leaves its text in that stage's
\* label and does not abort the run: a run consumed to END with no exception
\* escaping the workflow has run all four stages, and after a failed search
\* relevant_docs is empty.
C3_FailureIsolation ==
    \A i \in Instances :
        /\ \A k \in 1..Len(calls[i]) : Failed(i, k) => FailureRecorded(i, k)
        /\ (Failed(i, 2) => state[i].relevant_docs = <<>>)
        /\ (Completed(i) => Len(trace[i]) = 4)

\* C4: when the similarity search fails, retrieve_context sets relevant_docs
\* to the empty sequence and current_step to "Error retrieving context: "
\* followed by the failure message.
C4_RetrievalFailureLabel ==
    \A i \in Instances :
        Failed(i, 2) =>
            /\ state[i].relevant_docs = <<>>
            /\ trace[i][2].current_step =
                 "Error retrieving context: " \o calls[i][2].outcome.text

\* The slices of a text that streaming it as a valid explanation yields.
ExpectedSlices(text) ==
    [m \in 1..((Len(text) + chunk_size - 1) \div chunk_size) |->
        SubSeq(text, chunk_size * (m - 1) + 1, Min(chunk_size * m, Len(text)))]

ChunkTexts(i) ==
    LET cs == OfKind(i, "explanation") IN [m \in 1..Len(cs) |-> cs[m].text]

\* C5: when the LLM fails in the generate_explanation stage, explanation is
\* "Error generating explanation: {message}", current_step is
\* "Error: {message}", and the explanation chunks streamed are the slices of
\* that error text.
C5_GenerationFailureStreamed ==
    \A i \in Instances :
        (Len(trace[i]) >= 3 /\ Failed(i, 3)) =>
            LET msg == calls[i][3].outcome.text
                errtext == "Error generating explanation: " \o msg
            IN /\ state[i].explanation = errtext
               /\ trace[i][3].current_step = "Error: " \o msg
               /\ (ChunksDone(i) => ChunkTexts(i) = ExpectedSlices(errtext))

\* A completed run whose generation failed with a message long enough for
\* the error text to span two chunks.
C5_Witness ==
    \E i \in Instances :
        /\ Completed(i) /\ Failed(i, 3)
        /\ Len(OfKind(i, "explanation")) = 2

\* C6: an exception escaping the workflow iteration puts exactly one chunk
\* "Error generating explanation: {message}" on the stream, after which the
\* generator emits nothing and can only return; a stream holds at most one
\* error chunk and it is the last chunk.
C6_SingleFinalError ==
    /\ [](\A i \in Instances :
            /\ Cardinality(KindIdx(i, "error")) <= 1
            /\ \A k \in KindIdx(i, "error") :
                  /\ k = Len(out[i])
                  /\ \E msg \in FaultMsgs :
                        out[i][k].text = "Error generating explanation: " \o msg
            /\ (pc[i] = "except" => KindIdx(i, "error") # {}))
    /\ [][\A i \in Instances :
            /\ (pc[i] # "except" /\ pc'[i] = "except" =>
                   /\ Len(out'[i]) = Len(out[i]) + 1
                   /\ out'[i][Len(out'[i])].kind = "error")
            /\ (pc[i] = "except" =>
                   out'[i] = out[i] /\ pc'[i] \in {"except", "closed"})]_vars

\* A closed stream that ends in the error chunk after the first two progress
\* chunks.
C6_Witness ==
    \E i \in Instances :
        /\ pc[i] = "closed"
        /\ Len(out[i]) = 3
        /\ out[i][3].kind = "error"

\* C7: once the consumer has stopped consuming, the run makes no further
\* capability call and emits nothing; stopped after the second progress
\* chunk, the run has made the analysis and the search call only, never the
\* generate_explanation LLM call.
C7_Cancellation ==
    /\ [](\A i \in Instances :
            (consumer[i] = "gone" /\ Len(out[i]) = 2 /\ out[i][2].kind = "progress") =>
                /\ Len(calls[i]) = 2
                /\ calls[i][1].cap = "llm" /\ calls[i][2].cap = "search"
                /\ Len(trace[i]) = 2)
    /\ [][\A i \in Instances :
            consumer[i] = "gone" =>
                /\ calls'[i] = calls[i]
                /\ out'[i] = out[i]
                /\ trace'[i] = trace[i]
                /\ consumer'[i] = "gone"]_vars

\* The consumer stopped right after the retrieve_context progress chunk.
C7_Witness ==
    \E i \in Instances :
        /\ consumer[i] = "gone"
        /\ Len(out[i]) = 2 /\ out[i][2].kind = "progress"
        /\ Len(trace[i]) = 2 /\ trace[i][2].node = "retrieve_context"

\* C10: every explanation chunk follows the generate_explanation progress
\* chunk and precedes the format_response one (exactly three progress chunks
\* come before it), the explanation chunks are adjacent, and the m-th is the
\* slice of the explanation at offset 50(m-1).
C10_ChunksAfterGeneration ==
    \A i \in Instances :
        \A k \in KindIdx(i, "explanation") :
            LET before == {j \in KindIdx(i, "progress") : j < k}
                m == Cardinality({j \in KindIdx(i, "explanation") : j <= k})
            IN /\ Cardinality(before) = 3
               /\ Len(trace[i]) >= 3 /\ trace[i][3].node = "generate_explanation"
               /\ \A j \in before : j < k - m + 1
               /\ out[i][k - m].kind = "progress"
               /\ out[i][k - m].text = "**generate_explanation**: "
                                          \o trace[i][3].current_step \o "\n\n"
               /\ out[i][k].text =
                    SubSeq(state[i].explanation, chunk_size * (m - 1) + 1,
                           Min(chunk_size * m, Len(state[i].explanation)))

\* A completed run with three explanation chunks between the third and the
\* fourth progress chunk.
C10_Witness ==
    \E i \in Instances :
        /\ Completed(i)
        /\ Len(out[i]) = 7
        /\ KindIdx(i, "explanation") = {4, 5, 6}

\* The inputs a run was created with, as its first capability request
\* carries them.
InputOf(i) == calls[i][1].request

\* Every capability answered equal requests equally, over all runs.
Deterministic ==
    \A i, j \in Instances :
        \A a \in 1..Len(calls[i]) : \A b \in 1..Len(calls[j]) :
            (calls[i][a].cap = calls[j][b].cap
                /\ calls[i][a].request = calls[j][b].request)
            => calls[i][a].outcome = calls[j][b].outcome

\* C8: two runs with the same code, language and execution result, under
\* capabilities that answer equal requests equally, both consumed to END,
\* have emitted the same chunks in the same order.
C8_IdempotentRerun ==
    \A i, j \in Instances :
        (Completed(i) /\ Completed(j) /\ InputOf(i) = InputOf(j) /\ Deterministic)
        => out[i] = out[j]

\* Two completed runs on the same input with deterministic capabilities,
\* each with explanation chunks on its stream.
C8_Witness ==
    /\ Completed(1) /\ Completed(2)
    /\ InputOf(1) = InputOf(2)
    /\ Deterministic
    /\ KindIdx(1, "explanation") # {} /\ KindIdx(2, "explanation") # {}

\* What one run produces on its own from an input and the three capability
\* outcomes it received: its final state and its stream.
AloneStates(inp, r1, r2, r3) ==
    LET s0 == CodeTutorState(inp.code, inp.language,
                  ExecutionResult(inp.status, inp.stdout, inp.stderr, inp.execution_time))
        s1 == _analyze_code(s0, r1)
        s2 == _retrieve_context(s1, r2)
        s3 == _generate_explanation(s2, r3)
    IN <<s1, s2, s3, _format_response(s3)>>

AloneStream(ss) ==
    LET offsets == ChunkOffsets(ss[3].explanation)
    IN <<ProgressChunk("analyze_code", ss[1]),
         ProgressChunk("retrieve_context", ss[2]),
         ProgressChunk("generate_explanation", ss[3])>>
       \o [m \in 1..Len(offsets) |-> ExplanationChunk(ss[3].explanation, offsets[m])]
       \o <<ProgressChunk("format_response", ss[4])>>

\* C9: a step that advances one instance leaves the state, stream, calls and
\* position of every other instance as they were, and a run consumed to END
\* ends in the state and with the stream it produces alone from the same
\* input and capability outcomes, whatever the other instance did meanwhile.
C9_InstancesIndependent ==
    /\ [](\A i \in Instances :
            Completed(i) =>
                LET ss == AloneStates(InputOf(i), calls[i][1].outcome,
                                      calls[i][2].outcome, calls[i][3].outcome)
                IN state[i] = ss[4] /\ out[i] = AloneStream(ss))
    /\ [][\A i, j \in Instances :
            (i # j /\ <<pc[j], node[j], out[j], trace[j], calls[j]>>'
                        # <<pc[j], node[j], out[j], trace[j], calls[j]>>)
            => /\ state'[i] = state[i]
               /\ out'[i] = out[i]
               /\ calls'[i] = calls[i]
               /\ rng'[i] = rng[i]
               /\ pc'[i] = pc[i]]_vars

\* Both instances completed, on different inputs and with different
\* capability outcomes.
C9_Witness ==
    /\ Completed(1) /\ Completed(2)
    /\ InputOf(1) # InputOf(2)
    /\ calls[1][3].outcome # calls[2][3].outcome
    /\ out[1] # out[2]

\* C11: every explanation chunk is a non-empty slice of at most 50
\* characters, every chunk but the last holds exactly 50, and once the chunk
\* loop has ended an explanation of length L has given ceil(L/50) chunks.
C11_ChunkSizes ==
    \A i \in Instances :
        LET cs == OfKind(i, "explanation")
            L == Len(state[i].explanation)
        IN /\ \A m \in 1..Len(cs) :
                 /\ Len(cs[m].text) >= 1
                 /\ Len(cs[m].text) <= chunk_size
                 /\ (m < Len(cs) => Len(cs[m].text) = chunk_size)
           /\ (ChunksDone(i) => Len(cs) = (L + chunk_size - 1) \div chunk_size)

\* A completed run whose chunks hold 50, 50 and 20 characters.
C11_Witness ==
    \E i \in Instances :
        /\ Completed(i)
        /\ LET cs == OfKind(i, "explanation")
           IN /\ Len(cs) = 3
              /\ Len(cs[1].text) = chunk_size /\ Len(cs[2].text) = chunk_size
              /\ Len(cs[3].text) = 20

\* The capability calls of a run made to one capability.
CallsTo(i, cap) == SelectSeq(calls[i], LAMBDA c : c.cap = cap)

\* C12: in one run no stage executes twice and a completed run executed each
\* of the four exactly once; the LLM is invoked at most twice (the analysis,
\* then the explanation request), the search at most once, each executed
\* stage makes at most one call, and no request is issued a second time.
C12_NoRetry ==
    \A i \in Instances :
        /\ Len(trace[i]) <= 4
        /\ \A a, b \in 1..Len(trace[i]) :
              a # b => trace[i][a].node # trace[i][b].node
        /\ (Completed(i) => {trace[i][k].node : k \in 1..4}
                               = {StageOrder[k] : k \in 1..4})
        /\ Len(CallsTo(i, "llm")) <= 2
        /\ Len(CallsTo(i, "search")) <= 1
        /\ Len(calls[i]) <= Len(trace[i])
        /\ \A k \in 1..Len(CallsTo(i, "llm")) :
              CallsTo(i, "llm")[k].request.prompt
                  = <<"analysis", "explanation">>[k]

\* A completed run whose analysis request failed and that made three calls.
C12_Witness ==
    \E i \in Instances :
        /\ Completed(i)
        /\ Failed(i, 1)
        /\ Len(calls[i]) = 3

\* C13: relevant_docs changes only in the step that runs retrieve_context,
\* explanation only in the step that runs generate_explanation, messages
\* only in the step that runs analyze_code; every step that runs a stage
\* sets current_step to that stage's label, and no other step of a created
\* pipeline changes its state. Until their stage has run, relevant_docs and
\* explanation are empty.
C13_DesignatedWriters ==
    /\ [](\A i \in Instances :
            /\ (Len(trace[i]) < 2 => state[i].relevant_docs = <<>>)
            /\ (Len(trace[i]) < 3 => state[i].explanation = ""))
    /\ [][\A i \in Instances :
            LET ran == Len(trace'[i]) = Len(trace[i]) + 1
                n == trace'[i][Len(trace'[i])].node
            IN /\ (state'[i].relevant_docs # state[i].relevant_docs
                      => ran /\ n = "retrieve_context")
               /\ (state'[i].explanation # state[i].explanation
                      => ran /\ n = "generate_explanation")
               /\ (state'[i].messages # state[i].messages
                      => ran /\ n = "analyze_code")
               /\ (ran => /\ state'[i].current_step # state[i].current_step
                          /\ state'[i].current_step
                                = trace'[i][Len(trace'[i])].current_step)
               /\ ((~ran /\ pc[i] # "idle") => state'[i] = state[i])]_vars

\* A completed run that stored documents and a non-empty explanation.
C13_Witness ==
    \E i \in Instances :
        /\ Completed(i)
        /\ state[i].relevant_docs # <<>>
        /\ state[i].explanation # ""
        /\ state[i].current_step = "Response formatted and ready"

\* C19: retrieve_context makes exactly one search call, with a result cap
\* of 3; when the search returns, relevant_docs is the returned list in its
\* order and current_step is "Retrieved {n} relevant documents" with n the
\* number of documents stored, also for n = 0.
C19_RetrieveSuccess ==
    \A i \in Instances :
        Len(trace[i]) >= 2 =>
            /\ Len(CallsTo(i, "search")) = 1
            /\ calls[i][2].cap = "search"
            /\ calls[i][2].request.k = 3
            /\ (calls[i][2].outcome.tag = "ok" =>
                   /\ state[i].relevant_docs = calls[i][2].outcome.docs
                   /\ trace[i][2].current_step =
                        "Retrieved " \o ToString(Len(state[i].relevant_docs))
                            \o " relevant documents")

\* The search returned three documents and the stage has run.
C19_Witness ==
    \E i \in Instances :
        /\ Len(trace[i]) >= 2
        /\ calls[i][2].outcome.tag = "ok"
        /\ state[i].relevant_docs = <<D1, D2, D3>>
        /\ trace[i][2].current_step = "Retrieved 3 relevant documents"

\* C20: analyze_code makes exactly one LLM call, the analysis request; when
\* it returns, messages holds exactly the response and current_step is
\* "Code analysis completed"; when it fails, current_step is
\* "Error in analysis: {message}" and messages is as it was, empty.
C20_AnalyzeOutcome ==
    \A i \in Instances :
        Len(trace[i]) >= 1 =>
            /\ calls[i][1].cap = "llm"
            /\ calls[i][1].request.prompt = "analysis"
            /\ Cardinality({k \in 1..Len(CallsTo(i, "llm")) :
                               CallsTo(i, "llm")[k].request.prompt = "analysis"}) = 1
            /\ (calls[i][1].outcome.tag = "ok" =>
                   /\ state[i].messages = <<calls[i][1].outcome.text>>
                   /\ trace[i][1].current_step = "Code analysis completed")
            /\ (calls[i][1].outcome.tag = "raise" =>
                   /\ state[i].messages = <<>>
                   /\ trace[i][1].current_step =
                        "Error in analysis: " \o calls[i][1].outcome.text)

\* A completed run whose analysis failed and whose messages stayed empty.
C20_Witness ==
    \E i \in Instances :
        /\ Completed(i)
        /\ Failed(i, 1)
        /\ state[i].messages = <<>>
        /\ trace[i][1].current_step = "Error in analysis: boom"

\* The query of the search call of a run, and the first 200 characters of
\* its code.
QueryOf(i) == calls[i][2].request.query

First200(code) == IF Len(code) <= 200 THEN code ELSE SubSeq(code, 1, 200)

\* C15: when stderr is empty the retrieval query is "{language} code "
\* followed by the first 200 characters of the code (the whole code when it
\* has at most 200), and holds no "error:" segment.
C15_QueryWithoutError ==
    \A i \in Instances :
        (Len(trace[i]) >= 2 /\ state[i].execution_result.stderr = "") =>
            /\ QueryOf(i) = state[i].language \o " code " \o First200(state[i].code)
            /\ ~Contains(QueryOf(i), "error:")

\* A search was requested for a code of more than 200 characters that left
\* stderr empty.
C15_Witness ==
    \E i \in Instances :
        /\ Len(trace[i]) >= 2
        /\ state[i].execution_result.stderr = ""
        /\ Len(state[i].code) > 200
        /\ Len(QueryOf(i)) = Len("python code ") + 200

\* C16: when stderr is non-empty the retrieval query is "{language} code",
\* then "error: {stderr}", then the first 200 characters of the code,
\* separated by single spaces; the query holds an "error:" segment exactly
\* when stderr is non-empty.
C16_QueryWithError ==
    \A i \in Instances :
        Len(trace[i]) >= 2 =>
            /\ (state[i].execution_result.stderr # "" =>
                   QueryOf(i) = state[i].language \o " code" \o " error: "
                                   \o state[i].execution_result.stderr \o " "
                                   \o First200(state[i].code))
            /\ (Contains(QueryOf(i), " error: ")
                   <=> state[i].execution_result.stderr # "")

\* A search was requested for a code of more than 200 characters whose
\* execution wrote to stderr.
C16_Witness ==
    \E i \in Instances :
        /\ Len(trace[i]) >= 2
        /\ state[i].execution_result.stderr = "ReferenceError: y"
        /\ Len(state[i].code) = 201
        /\ Len(QueryOf(i)) = Len("javascript code error: ReferenceError: y ") + 200

\* Positions in sent of the messages of one type.
SentIdx(type) == {k \in 1..Len(sent) : sent[k].type = type}

\* C14: the executor is invoked and has completed before the pipeline is
\* constructed: a created pipeline finds exactly one executor call logged,
\* its execution_complete message handed over, and holds that call's
\* result; every rag_explanation message comes after the
\* execution_complete message; and no step that runs the pipeline (one that
\* changes a run's position, output, calls or trace) adds an executor call,
\* nor is any of the pipeline's capability calls one to the executor.
C14_ExecutorBeforePipeline ==
    /\ [](/\ (pc[1] # "idle" =>
                /\ Len(execs) = 1
                /\ SentIdx("execution_complete") # {}
                /\ state[1].execution_result = execs[1].result
                /\ sent[CHOOSE k \in SentIdx("execution_complete") : TRUE].result
                      = execs[1].result)
          /\ Cardinality(SentIdx("execution_complete")) <= 1
          /\ \A k \in SentIdx("rag_explanation") :
                \E j \in SentIdx("execution_complete") : j < k
          /\ \A k \in 1..Len(calls[1]) : calls[1][k].cap \in {"llm", "search"})
    /\ [][(pc[1] # "idle" /\ <<pc, out, calls, trace>>' # <<pc, out, calls, trace>>)
             => execs' = execs]_vars

\* The handler forwarded explanation chunks of a run on a failed execution
\* and reported Ready.
C14_Witness ==
    /\ hpc = "done"
    /\ Len(execs) = 1 /\ execs[1].result.status = "error"
    /\ Len(SentOf("rag_explanation")) >= 5
    /\ sent[Len(sent)] = Status("Ready")

\* C17: a quick-help call adds one entry to the quick-help log and nothing
\* else: it makes exactly one capability call, to the LLM, with the
\* quick-help request; no pipeline run's position, state, output, calls or
\* trace changes and no executor call or handler message is added; when the
\* LLM returns, the result is the whole response text.
C17_QuickHelpFrame ==
    [][help' # help =>
         /\ Len(help') = Len(help) + 1
         /\ SubSeq(help', 1, Len(help)) = help
         /\ LET h == help'[Len(help')]
            IN /\ Len(h.calls) = 1
               /\ h.calls[1].cap = "llm"
               /\ h.calls[1].request.prompt = "quick_help"
               /\ (h.calls[1].outcome.tag = "ok" => h.result = h.calls[1].outcome.text)
         /\ UNCHANGED <<pvars, hpc, req, sent, execs>>]_vars

\* Quick help returned a response longer than one chunk while a pipeline
\* run was in its chunk loop.
C17_Witness ==
    /\ pc[1] = "chunks"
    /\ help # <<>>
    /\ help[Len(help)].calls[1].outcome.tag = "ok"
    /\ Len(help[Len(help)].result) = chunk_size + 20

\* C18: a run never holds more than 4 progress chunks, more than
\* ceil(len(explanation)/50) explanation chunks or more than one error
\* chunk, and every started run whose consumer keeps asking for chunks
\* eventually closes its stream.
C18_StreamFinite ==
    /\ [](\A i \in Instances :
            /\ Cardinality(KindIdx(i, "progress")) <= 4
            /\ Cardinality(KindIdx(i, "explanation"))
                  <= (Len(state[i].explanation) + 49) \div 50
            /\ Cardinality(KindIdx(i, "error")) <= 1)
    /\ \A i \in {1} :
          (pc[i] # "idle") ~> (pc[i] = "closed" \/ consumer[i] = "gone")

\* A closed stream of 4 progress chunks and 3 explanation chunks.
C18_Witness ==
    /\ pc[1] = "closed"
    /\ consumer[1] = "open"
    /\ Cardinality(KindIdx(1, "progress")) = 4
    /\ Cardinality(KindIdx(1, "explanation")) = 3
    /\ Cardinality(KindIdx(1, "error")) = 0

\* The step of run i that executes the stage named n.
RunsStage(i, n) ==
    /\ Len(trace'[i]) = Len(trace[i]) + 1
    /\ trace'[i][Len(trace'[i])].node = n

\* C21: the step that runs analyze_code leaves relevant_docs and
\* explanation as they were, whether the LLM returned or failed.
C21_AnalyzeFrame ==
    [][\A i \in Instances :
          RunsStage(i, "analyze_code") =>
              /\ state'[i].relevant_docs = state[i].relevant_docs
              /\ state'[i].explanation = state[i].explanation]_vars

\* The analysis has failed and nothing else has run: no documents, no
\* explanation.
C21_Witness ==
    \E i \in Instances :
        /\ Len(trace[i]) = 1
        /\ Failed(i, 1)
        /\ state[i].relevant_docs = <<>>
        /\ state[i].explanation = ""

\* C22: the step that runs format_response sets current_step to
\* "Response formatted and ready", leaves every other field of the state
\* as it was and makes no capability call.
C22_FormatFrame ==
    [][\A i \in Instances :
          RunsStage(i, "format_response") =>
              /\ state'[i] = [state[i] EXCEPT
                                !.current_step = "Response formatted and ready"]
              /\ calls'[i] = calls[i]]_vars

\* format_response has run on a state holding an analysis message,
\* documents and an explanation.
C22_Witness ==
    \E i \in Instances :
        /\ Len(trace[i]) = 4
        /\ trace[i][4].current_step = "Response formatted and ready"
        /\ state[i].messages # <<>>
        /\ state[i].relevant_docs = <<D1>>
        /\ Len(state[i].explanation) = chunk_size

\* C23: in every step of a created pipeline run code, language and
\* execution_result keep their value.
C23_InputsImmutable ==
    [][\A i \in Instances :
          pc[i] # "idle" =>
              /\ state'[i].code = state[i].code
              /\ state'[i].language = state[i].language
              /\ state'[i].execution_result = state[i].execution_result]_vars

\* A completed run on a code longer than the search snippet.
C23_Witness ==
    \E i \in Instances :
        /\ Completed(i)
        /\ Len(state[i].code) = 250
        /\ state[i].language = "python"
        /\ state[i].execution_result.status = "success"

\* C30: a quick-help call whose LLM request fails returns
\* "Error getting help: {message}"; it made that one request and no other.
C30_QuickHelpFailure ==
    [][help' # help =>
         LET h == help'[Len(help')]
         IN h.calls[Len(h.calls)].outcome.tag = "raise" =>
               /\ h.result = "Error getting help: " \o h.calls[1].outcome.text
               /\ Len(h.calls) = 1]_vars

\* A quick-help call has returned the failure string.
C30_Witness ==
    /\ help # <<>>
    /\ help[1].calls[1].outcome = Raised("boom")
    /\ help[1].result = "Error getting help: boom"

\* C25 (the claim as stated): once execution_complete is sent no output
\* task is pending, and every execution_output message was sent before it.
C25_OutputBeforeComplete ==
    \A j \in SentIdx("execution_complete") :
        /\ tasks = <<>>
        /\ \A k \in SentIdx("execution_output") : k < j

\* The positions of the handler's own messages (not the output tasks') in
\* sent and raised.
ReadyIdx == {k \in 1..Len(sent) : sent[k] = Status("Ready")}

ErrorReported ==
    \/ \E k \in 1..Len(sent) : sent[k].type = "execution_error"
    \/ \E k \in 1..Len(raised) : raised[k].type = "execution_error"

C27_SandboxClosed ==
    \A k \in 1..Len(execs) :
        /\ execs[k].sandbox \in {<<>>, <<"created", "closed">>}
        /\ (execs[k].language \in Languages /\ execs[k].run.tag # "create_raises"
               => execs[k].sandbox # <<>>)

\* execute_code returned a timeout result, the sandbox created and closed.
C27_Witness ==
    \E k \in 1..Len(execs) :
        /\ execs[k].run.tag = "timeout"
        /\ execs[k].result.status = "timeout"
        /\ execs[k].sandbox = <<"created", "closed">>

\* An executor call that did not run the program to its exit.
ExecFailure(e) == e.language \notin Languages \/ e.run.tag # "exit"

ExecNormalPath(e) ==
    e.language \in Languages /\ e.run.tag = "exit" =>
        /\ (e.result.status = "success" <=> e.run.exit_code = 0)
        /\ e.result.status \in {"success", "error"}
        /\ e.result.exit_code = e.run.exit_code

\* C28 (the claim as stated): every failure of an executor call yields
\* status error with the failure text in stderr and error_message, and on
\* the normal path status is success exactly when the exit code is 0.
C28_Original ==
    \A k \in 1..Len(execs) :
        /\ (ExecFailure(execs[k]) =>
               /\ execs[k].result.status = "error"
               /\ execs[k].result.stderr = execs[k].result.error_message
               /\ execs[k].result.stderr # "")
        /\ ExecNormalPath(execs[k])

\* C28 (amended): every executor call returns a result. An unsupported
\* language and every failure other than a timeout yield status error with
\* the failure text in stderr and error_message; a timeout yields status
\* timeout, stderr "Execution timed out" and error_message
\* "Code execution timed out"; on the normal path status is success exactly
\* when the exit code is 0.
C28_FailureResults ==
    \A k \in 1..Len(execs) :
        LET e == execs[k]
            text == IF e.language \notin Languages
                    THEN "Unsupported language: " \o e.language ELSE e.run.msg
        IN /\ ((ExecFailure(e) /\ (e.language \notin Languages \/ e.run.tag # "timeout")) =>
                  /\ e.result.status = "error"
                  /\ e.result.stderr = text
                  /\ e.result.error_message = text)
           /\ ((e.language \in Languages /\ e.run.tag = "timeout") =>
                  /\ e.result.status = "timeout"
                  /\ e.result.stderr = "Execution timed out"
                  /\ e.result.error_message = "Code execution timed out")
           /\ ExecNormalPath(e)

\* The executor has returned for an unsupported language.
C28_Witness ==
    \E k \in 1..Len(execs) :
        /\ execs[k].language = "ruby"
        /\ execs[k].result.status = "error"
        /\ execs[k].result.error_message = "Unsupported language: ruby"

\* C24 (the claim as stated): every message produced while a connection's
\* request is handled is sent to that connection, and a step that closes
\* one connection changes no registration but that connection's own.
C24_ConnectionsIsolated ==
    /\ [](\A k \in 1..Len(delivered) : delivered[k].to = delivered[k].from)
    /\ [][\A w \in Sockets :
            (socks[w].at # "closed" /\ socks'[w].at = "closed") =>
                \A c \in ClientIds :
                    active_connections'[c] # active_connections[c]
                        => active_connections[c] = w]_vars

\* The admitted calls of an identifier whose admission fell in the window
\* of window_seconds starting at a.
AdmittedIn(id, a) ==
    {k \in 1..Len(admitted[id]) :
        a <= admitted[id][k] /\ admitted[id][k] < a + window_seconds}

\* Parts of C29 that hold in the code: an identifier's record never holds
\* more than max_requests timestamps; a step changes the record of the
\* calling identifier only; a call that is denied adds no timestamp.
LimiterRecords ==
    /\ [](\A id \in Identifiers : Len(requests[id]) <= max_requests)
    /\ [][\A id \in Identifiers :
            /\ (requests'[id] # requests[id] =>
                   \E u \in Threads : threads[u].at # "idle" /\ threads'[u].at = "idle"
                                         /\ threads[u].identifier = id)
            /\ (admitted'[id] = admitted[id] =>
                   \E n \in 0..Len(requests[id]) :
                       requests'[id] = SubSeq(requests[id], n + 1, Len(requests[id])))]_vars

\* C29 (the claim as stated): in any window of window_seconds at most
\* max_requests calls of one identifier are admitted, together with the
\* three properties of the records.
C29_RateLimit ==
    /\ [](\A id \in Identifiers : \A a \in 0..MaxTime :
            Cardinality(AdmittedIn(id, a)) <= max_requests)
    /\ LimiterRecords

====
